---- MODULE Spec2Model ----
(***************************************************************************)
(* Browser-Manager: the instance lifecycle manager of                      *)
(* src/src/main/browserManager.ts (class BrowserManager) as a state        *)
(* machine.  The manager runs on one JavaScript event loop: every action   *)
(* below is the code that runs between two suspension points (await,       *)
(* timer, event) of one handler, with every call it makes included.        *)
(***************************************************************************)
EXTENDS Integers, Sequences, FiniteSets, Bags, TLC

(* ----------------------------- bounds --------------------------------- *)
\* Instance objects (launchBrowser calls that reach an await) in a run.
MaxInst == 2
\* stopBrowser calls suspended in cleanupInstance at the same time.
MaxStops == 1
\* stopAllBrowsers calls suspended at their Promise.race at the same time.
MaxShutdowns == 1

\* Profile ids the callers use (strings matching /^\d+$/).
Ids == {"1", "2"}
Inst == 1..MaxInst
NoInst == 0
NoId == "none"

VARIABLES
    instances,      \* this.instances: the registered Instance objects
    instId,         \* instance.id of every Instance object
    status,         \* instance.status of every Instance object
    launchPc,       \* where the launchBrowser call that created the object stands
    proc,           \* the browser process puppeteer.launch spawned for the object
    locks,          \* per id: lock artifacts present in the profile directory
    configs,        \* this.configs: the saved profiles, in insertion order
    stored,         \* the content of browser-configs.json, or NoFile
    dirs,           \* the ids whose profile directory exists on disk
    isShuttingDown, \* this.isShuttingDown
    timerSet,       \* this.statusCheckInterval !== null
    shutdowns,      \* the stopAllBrowsers calls suspended at Promise.race
    cleanups,       \* bag of suspended cleanupInstance calls
    pollCur,        \* the Instance object the poll cycle is probing, or NoInst
    quit,           \* the application's quit sequence (the 'before-quit' listeners)
    emitted,        \* the statusUpdate events emitted in the last step
    lastEvent       \* history: per id, the status of the last event emitted

vars == <<instances, instId, status, launchPc, proc, locks, configs, stored,
          dirs, isShuttingDown, timerSet, shutdowns, cleanups, pollCur, quit,
          emitted, lastEvent>>

(* ------------------------------ values -------------------------------- *)
\* BrowserStatus (types.ts) without its timestamp: action "none" is the
\* absent optional field.  lastChecked is followed through the events: every
\* write of Date.now() to a status is followed by an event carrying it.
Status(r, p, a) == [isRunning |-> r, inProgress |-> p, action |-> a]
StartingStatus == Status(FALSE, TRUE, "starting")
RunningStatus == Status(TRUE, FALSE, "none")
NotRunningStatus == Status(FALSE, FALSE, "none")

\* A statusUpdate event (id, status).  lastChecked is "now" when the emitted
\* status carries a lastChecked written with Date.now() in this step, "kept"
\* when it carries the lastChecked the status already had.
Event(id, st, t) == [id |-> id, isRunning |-> st.isRunning,
                     inProgress |-> st.inProgress, action |-> st.action,
                     lastChecked |-> t]

\* The state a handler starts from, as a record its code transforms; ev
\* collects the events the running step emits.
Cur == [instances |-> instances, instId |-> instId, status |-> status,
        launchPc |-> launchPc, proc |-> proc, locks |-> locks,
        configs |-> configs, stored |-> stored, dirs |-> dirs,
        isShuttingDown |-> isShuttingDown,
        timerSet |-> timerSet, shutdowns |-> shutdowns, cleanups |-> cleanups,
        pollCur |-> pollCur, quit |-> quit, ev |-> <<>>]

Min(S) == CHOOSE x \in S : \A y \in S : x <= y
Max(S) == CHOOSE x \in S : \A y \in S : x >= y

\* What the listeners of 'statusUpdate' (main.ts forwards every event to the
\* window) know of an id: the status of the last event emitted for it,
\* NoEvent before the first.  The history is kept by the specifications
\* that set on.
NoEvent == Status(FALSE, FALSE, "never")
History(on) == [on |-> on, of |-> [id \in Ids |-> NoEvent]]

\* The history after the events ev of a step.
Record(h, ev) ==
    IF ~h.on THEN h
    ELSE [h EXCEPT !.of = [id \in Ids |->
            LET at == {i \in DOMAIN ev : ev[i].id = id}
            IN  IF at = {} THEN @[id]
                ELSE Status(ev[Max(at)].isRunning, ev[Max(at)].inProgress,
                            ev[Max(at)].action)]]

\* An Instance object nothing can read any more: not registered, its launch
\* over, held by no suspended cleanup or poll, its process never spawned or
\* gone with its connection closed.
Unreachable(M, n) ==
    /\ n \notin M.instances
    /\ M.launchPc[n] \in {"done", "failed"}
    /\ M.pollCur # n
    /\ \A t \in BagToSet(M.cleanups) : t.inst # n
    /\ M.proc[n] \in {"none", "gone"}

\* The status of an object is read through the registry and by the poll
\* cycle that holds the object.
StatusReadable(M, n) == n \in M.instances \/ M.pollCur = n

\* Garbage collection: what nothing can read is forgotten.
Collect(M0) ==
    CHOOSE N \in {[M EXCEPT
        !.instId = [n \in Inst |-> IF Unreachable(M, n) THEN NoId ELSE @[n]],
        !.proc = [n \in Inst |-> IF Unreachable(M, n) THEN "none" ELSE @[n]],
        !.status = [n \in Inst |-> IF StatusReadable(M, n) THEN @[n]
                                   ELSE NotRunningStatus]] : M \in {M0}} : TRUE

\* The state M replaces the current one.
Assign(M) ==
    \E N \in {Collect(M)} :
        /\ instances' = N.instances
        /\ instId' = N.instId
        /\ status' = N.status
        /\ launchPc' = N.launchPc
        /\ proc' = N.proc
        /\ locks' = N.locks
        /\ configs' = N.configs
        /\ stored' = N.stored
        /\ dirs' = N.dirs
        /\ isShuttingDown' = N.isShuttingDown
        /\ timerSet' = N.timerSet
        /\ shutdowns' = N.shutdowns
        /\ cleanups' = N.cleanups
        /\ pollCur' = N.pollCur
        /\ quit' = N.quit
        /\ emitted' = N.ev
        /\ lastEvent' = Record(lastEvent, N.ev)

\* A task of the event loop ends in state M.  The loop runs tasks while the
\* application runs and no listener keeps the loop from getting control.
Commit(M) ==
    /\ quit.app = "running"
    /\ Assign(M)

(* --------------------------- the config store ------------------------- *)
\* validateBrowserConfig rejects names longer than this.
NameMax == 50

\* Strings are read character by character where the code does: a name is
\* kept as the sequence of its characters, an id (a key of both maps) as a
\* string whose characters IdChars spells out.
BadIds == {"", " ", "1a"}
IdChars(id) ==
    CASE id = "1" -> <<"1">>
      [] id = "2" -> <<"2">>
      [] id = "" -> <<>>
      [] id = " " -> <<" ">>
      [] id = "1a" -> <<"1", "a">>

Digits == {"0", "1", "2", "3", "4", "5", "6", "7", "8", "9"}
WhiteSpace == {" ", "\t", "\n"}

\* String.prototype.trim()
RECURSIVE TrimStart(_)
TrimStart(s) ==
    IF s # <<>> /\ Head(s) \in WhiteSpace THEN TrimStart(Tail(s)) ELSE s

RECURSIVE TrimEnd(_)
TrimEnd(s) ==
    IF s # <<>> /\ s[Len(s)] \in WhiteSpace
    THEN TrimEnd(SubSeq(s, 1, Len(s) - 1))
    ELSE s

Trim(s) == TrimEnd(TrimStart(s))

\* /^\d+$/.test(s)
TestDigits(s) == s # <<>> /\ \A i \in 1..Len(s) : s[i] \in Digits

\* BrowserConfig (types.ts)
BrowserConfig(id, name) == [id |-> id, name |-> name]

\* validateBrowserConfig (utils.ts)
ValidateBrowserConfig(config) ==
    /\ Trim(IdChars(config.id)) # <<>>
    /\ Trim(config.name) # <<>>
    /\ TestDigits(IdChars(config.id))
    /\ Len(config.name) <= NameMax

\* this.configs is a Map keyed by id, kept as the sequence of its values in
\* insertion order.
ConfigsIndex(M, id) ==
    IF \E i \in 1..Len(M.configs) : M.configs[i].id = id
    THEN CHOOSE i \in 1..Len(M.configs) : M.configs[i].id = id
    ELSE 0

ConfigsHas(M, id) == ConfigsIndex(M, id) # 0

\* configs.set(config.id, config): an existing key keeps its position.
ConfigsSet(M, config) ==
    IF ConfigsHas(M, config.id)
    THEN [M EXCEPT !.configs[ConfigsIndex(M, config.id)] = config]
    ELSE [M EXCEPT !.configs = Append(@, config)]

ConfigsDelete(M, id) ==
    [M EXCEPT !.configs = SelectSeq(@, LAMBDA c : c.id # id)]

\* Array.from(this.configs.values()).find(c => c.name === name): the first
\* saved profile of that name, or 0.
FindByName(M, name) ==
    IF \E i \in 1..Len(M.configs) : M.configs[i].name = name
    THEN Min({i \in 1..Len(M.configs) : M.configs[i].name = name})
    ELSE 0

\* browser-configs.json: it does not exist, it holds no parsable JSON, or
\* it holds the JSON of a list of profiles.
NoFile == [state |-> "absent", list |-> <<>>]
Corrupt == [state |-> "corrupt", list |-> <<>>]
File(list) == [state |-> "json", list |-> list]

\* new Map(list.map(c => [c.id, c])): a later entry of a key replaces the
\* value of the earlier one, which keeps its position.
RECURSIVE MapFromList(_, _)
MapFromList(M, list) ==
    IF list = <<>> THEN M
    ELSE MapFromList(ConfigsSet(M, Head(list)), Tail(list))

\* loadConfigs: the file, if there is one and it parses, replaces
\* this.configs; an error is only logged.
LoadConfigs(M) ==
    IF M.stored.state # "json" THEN M
    ELSE MapFromList([M EXCEPT !.configs = <<>>], M.stored.list)

\* What writeFileSync can do: write the file, throw before it opened the
\* file, or throw after it truncated the file.
WriteOutcomes == {"written", "failed", "torn"}

\* saveConfigs up to the point where it returns or throws.
SaveConfigs(M, write) ==
    CASE write = "written" -> [M EXCEPT !.stored = File(M.configs)]
      [] write = "failed" -> M
      [] write = "torn" -> [M EXCEPT !.stored = Corrupt]

(* ------------------------ the registry (a Map) ------------------------ *)
\* The registry is kept as the set of registered Instance objects; the key of
\* an object is its id.
\* Mutant of MapHas: the lookup never finds the key.
MapHasNever(M, id) == FALSE

MapHas(M, id) == \E n \in M.instances : M.instId[n] = id

MapGet(M, id) ==
    IF \E n \in M.instances : M.instId[n] = id
    THEN CHOOSE n \in M.instances : M.instId[n] = id
    ELSE NoInst

\* Mutant of MapDelete: the whole registry goes with the key.
MapDeleteClears(M, id) == [M EXCEPT !.instances = {}]

MapDelete(M, id) == [M EXCEPT !.instances = {n \in @ : M.instId[n] # id}]

\* instances.set(config.id, instance), called only after the has() guard of
\* launchBrowser found the key absent: the entry is added.
MapSet(M, n) == [M EXCEPT !.instances = @ \cup {n}]

MapClear(M) == [M EXCEPT !.instances = {}]

Emit(M, id, st, t) == [M EXCEPT !.ev = Append(@, Event(id, st, t))]

\* utils.ts cleanUserDataDirectory: unlink SingletonLock, SingletonSocket, Singleton.
CleanUserDataDirectory(M, id) == [M EXCEPT !.locks[id] = FALSE]

(* ----------------------------- liveness probe ------------------------- *)
\* instance.browser is assigned once the bootstrap page has loaded.
BrowserSet(M, n) == M.launchPc[n] \in {"verify", "done"}

\* checkBrowserRunning up to its first await: FALSE is "return false now",
\* TRUE is "go on to await browser.pages()".
\*   "gone"   : browser.isConnected() is false
\*   "killed" : browser.process().killed is true
ProbeNeeded(M, n) == BrowserSet(M, n) /\ M.proc[n] \notin {"gone", "killed"}

\* What checkBrowserRunning can return after its await: true needs a live,
\* answering browser with a target; a timeout, a rejection or an empty target
\* list give false.
ProbeResults(M, n) == IF M.proc[n] = "up" THEN {TRUE, FALSE} ELSE {FALSE}

(* -------------------------- updateInstanceStatus ---------------------- *)
UpdateInstanceStatus(M, id, isRunning) ==
    LET n == MapGet(M, id) IN
    IF n = NoInst \/ M.status[n].inProgress THEN M
    ELSE LET newStatus == Status(isRunning, FALSE, "none")
             M1 == [M EXCEPT !.status[n] = newStatus]
         IN  IF ~isRunning /\ ~M.isShuttingDown
             THEN MapDelete(Emit(M1, id, newStatus, "now"), id)
             ELSE Emit(M1, id, newStatus, "now")

(* ------------------------------ launchBrowser ------------------------- *)
\* Mutant of LaunchCheck: the saved profiles are not consulted.
LaunchCheckNoProfile(M, id) ==
    IF M.isShuttingDown THEN "ShuttingDown"
    ELSE IF MapHas(M, id) THEN "AlreadyRunning"
    ELSE "ok"

\* Mutant of LaunchCheck: the guard on the registry is missing.
LaunchCheckNoHas(M, id) ==
    IF M.isShuttingDown THEN "ShuttingDown"
    ELSE IF ~ConfigsHas(M, id) THEN "ProfileNotFound"
    ELSE "ok"

\* The guards of launchBrowser, in the order of the code: the error the call
\* throws before it changes anything, or "ok".
LaunchCheck(M, id) ==
    IF M.isShuttingDown THEN "ShuttingDown"
    ELSE IF MapHas(M, id) THEN "AlreadyRunning"
    ELSE IF ~ConfigsHas(M, id) THEN "ProfileNotFound"
    ELSE "ok"

\* Mutant of LaunchCatch: the placeholder is not removed from the registry.
LaunchCatchNoDelete(M, id) ==
    Emit(CleanUserDataDirectory(M, id), id, NotRunningStatus, "now")

\* The catch block of launchBrowser (step 9).
LaunchCatch(M, id) ==
    Emit(CleanUserDataDirectory(MapDelete(M, id), id), id, NotRunningStatus, "now")

\* launchBrowser step 3: the profile directory is created, or cleaned of
\* its lock artifacts when it exists.
PrepareUserDataDirectory(M, id) ==
    IF id \notin M.dirs THEN [M EXCEPT !.dirs = @ \cup {id}]
    ELSE CleanUserDataDirectory(M, id)

FreeInst == {n \in Inst : launchPc[n] = "none"}

\* Steps 2 and 3 of launchBrowser: the placeholder n is registered and
\* announced, the profile directory is created or cleaned.
LaunchPrepare(M, n, id) ==
    LET M0 == [M EXCEPT !.instId[n] = id, !.status[n] = StartingStatus,
                        !.launchPc[n] = "spawning"]
    IN  PrepareUserDataDirectory(Emit(MapSet(M0, n), id, StartingStatus, "now"),
                                 id)

\* The launch of object n fails: inner catch (if any), then the outer catch.
LaunchFails(M, n) == LaunchCatch([M EXCEPT !.launchPc[n] = "failed"], M.instId[n])

\* getChromePath() throws or names no file: the placeholder object, which
\* nothing else has seen, goes through the catch block and is dropped.
LaunchNoChrome(M, n, id) ==
    [LaunchFails(LaunchPrepare(M, n, id), n) EXCEPT !.launchPc[n] = "none",
                                                     !.instId[n] = NoId]

\* launchBrowser from the call to the first await (puppeteer.launch).
\* chromeFound: getChromePath() finds an executable.  A rejected call only
\* throws.
LaunchBrowserCall(M, id, n, chromeFound) ==
    IF LaunchCheck(M, id) # "ok" THEN M
    ELSE IF chromeFound THEN LaunchPrepare(M, n, id)
    ELSE LaunchNoChrome(M, n, id)

\* A launchBrowser call; an accepted one takes the next Instance object.
LaunchBrowser(id, chromeFound) ==
    IF LaunchCheck(Cur, id) # "ok"
    THEN Commit(LaunchBrowserCall(Cur, id, NoInst, chromeFound))
    ELSE /\ FreeInst # {}
         /\ Commit(LaunchBrowserCall(Cur, id, Min(FreeInst), chromeFound))

\* The profile directory of Instance object n is locked by the live process
\* of another object: a browser started on it hands over to that process
\* and exits, and puppeteer.launch rejects.
ProfileInUse(M, n) ==
    /\ M.locks[M.instId[n]]
    /\ \E m \in Inst \ {n} : M.instId[m] = M.instId[n] /\ M.proc[m] = "up"

\* puppeteer.launch settles: the process is spawned (and takes the profile
\* lock), or the launch is rejected.
LaunchSpawned(n, ok) ==
    /\ launchPc[n] = "spawning"
    /\ ok => ~ProfileInUse(Cur, n)
    /\ IF ok
       THEN Commit([Cur EXCEPT !.proc[n] = "up", !.launchPc[n] = "bootstrap",
                               !.locks[instId[n]] = TRUE,
                               !.dirs = @ \cup {instId[n]}])
       ELSE Commit(LaunchFails(Cur, n))

\* browser.newPage() and page.goto() settle; on success instance.browser is
\* set and the settle delay starts.
LaunchBootstrapped(n, ok) ==
    /\ launchPc[n] = "bootstrap"
    /\ ok => proc[n] = "up"
    /\ IF ok
       THEN Commit([Cur EXCEPT !.launchPc[n] = "verify"])
       ELSE Commit(LaunchFails(Cur, n))

\* Mutant of LaunchSucceeds: the new status is spread over the old one and
\* keeps its action.
LaunchSucceedsKeepsAction(M, n) ==
    LET st == [M.status[n] EXCEPT !.isRunning = TRUE, !.inProgress = FALSE]
    IN  Emit([M EXCEPT !.status[n] = st, !.launchPc[n] = "done"],
             M.instId[n], st, "now")

\* Steps 7 and 8 of launchBrowser.
LaunchSucceeds(M, n) ==
    Emit([M EXCEPT !.status[n] = RunningStatus, !.launchPc[n] = "done"],
         M.instId[n], RunningStatus, "now")

\* The settle delay has passed and checkBrowserRunning(browser) returns
\* isRunning.
LaunchVerified(n, isRunning) ==
    /\ launchPc[n] = "verify"
    /\ isRunning \in ProbeResults(Cur, n)
    /\ IF isRunning
       THEN Commit(LaunchSucceeds(Cur, n))
       ELSE Commit(LaunchFails(Cur, n))

(* ------------------------------ stopAllBrowsers ----------------------- *)
\* Mutant of ShutdownFinally: the registry is not cleared.
ShutdownFinallyNoClear(M) == [M EXCEPT !.isShuttingDown = FALSE]

\* The finally block of stopAllBrowsers.
ShutdownFinally(M) == [MapClear(M) EXCEPT !.isShuttingDown = FALSE]

\* The application's quit sequence.  isQuitting is the variable of main.ts;
\* awaits holds the stopAllBrowsers calls a 'before-quit' listener is
\* suspended on; app is "running", "requitting" while the listener of the
\* constructor calls app.quit() again, or "exited" once app.exit() was called.
NoQuit == [isQuitting |-> FALSE, awaits |-> {}, app |-> "running"]

\* The stopAllBrowsers call of the constructor's 'before-quit' listener and
\* the one of the listener of main.ts.
ManagerCall == 1
MainCall == MaxShutdowns + 1
QuitCalls == {ManagerCall, MainCall}

\* The stopAllBrowsers call k has returned: the listener suspended on it
\* continues.  The listener of main.ts calls app.exit(0).  The listener of
\* the constructor calls app.quit(), which emits 'before-quit' at once: it
\* finds isShuttingDown reset by the finally block, sets it again and runs
\* on to its saveConfigs call; the listener of main.ts returns at once.
QuitContinue(M, k) ==
    IF k \notin M.quit.awaits THEN M
    ELSE IF k = MainCall
    THEN [M EXCEPT !.quit.awaits = @ \ {k}, !.quit.app = "exited"]
    ELSE [M EXCEPT !.quit.awaits = @ \ {k}, !.quit.app = "requitting",
                   !.isShuttingDown = TRUE, !.timerSet = FALSE]

\* The stopAllBrowsers call k leaves its try block and runs its finally
\* block; its caller continues.
ShutdownReturns(M, k) ==
    QuitContinue(ShutdownFinally([M EXCEPT !.shutdowns = @ \ {k}]), k)

(* ------------------------------ cleanupInstance ----------------------- *)
\* A cleanupInstance call suspended in its inner try block (closing the
\* pages, then browser.close()): the Instance object it holds and who awaits
\* it: a stopBrowser call (StopOwner), the stopAllBrowsers call k (k), or
\* nobody any more (Abandoned: the stopAllBrowsers call that made it has
\* returned on its timeout).
StopOwner == 0
Abandoned == -1
Shutdowns == 1..MaxShutdowns
Task(n, owner) == [inst |-> n, owner |-> owner]
Tasks == [inst : Inst, owner : {StopOwner, Abandoned} \cup Shutdowns]
TasksOf(M, owner) == {t \in BagToSet(M.cleanups) : t.owner = owner}

\* Mutant of CleanupFinally: the id is not removed from the registry.
CleanupFinallyNoDelete(M, id) ==
    Emit(CleanUserDataDirectory(M, id), id, NotRunningStatus, "now")

\* The finally block of cleanupInstance.
CleanupFinally(M, id) ==
    Emit(MapDelete(CleanUserDataDirectory(M, id), id), id, NotRunningStatus, "now")

\* cleanupInstance(id) from the call to its first await, or to its end when
\* it does not suspend.
CleanupStart(M, id, owner) ==
    LET n == MapGet(M, id) IN
    IF n = NoInst THEN M
    ELSE IF BrowserSet(M, n)
    THEN [M EXCEPT !.cleanups = @ (+) SetToBag({Task(n, owner)})]
    ELSE CleanupFinally(M, id)

\* The promise of the task settles: Promise.all of the stopAllBrowsers call
\* that awaits it resolves with its last task and the call continues at once.
CleanupSettled(M, t) ==
    IF t.owner \in M.shutdowns /\ TasksOf(M, t.owner) = {}
    THEN ShutdownReturns(M, t.owner)
    ELSE M

\* The task leaves cleanupInstance through its finally block.
CleanupReturns(M, t) ==
    CleanupSettled(
        CleanupFinally([M EXCEPT !.cleanups = @ (-) SetToBag({t})], M.instId[t.inst]),
        t)

\* The pages are closed and browser.close() resolves: the process has
\* exited and the connection is closed; clearTimeout, then the finally block.
CleanupClosed(t) ==
    /\ BagIn(t, cleanups)
    /\ proc[t.inst] = "gone"
    /\ Commit(CleanupReturns(Cur, t))

\* process.kill(): a live process is terminated and marked killed.
Kill(M, n) == [M EXCEPT !.proc[n] = IF @ = "up" THEN "killed" ELSE @]

\* browser.close() rejects: the catch block kills the process, then the
\* finally block.
CleanupCloseFailed(t) ==
    /\ BagIn(t, cleanups)
    /\ Commit(CleanupReturns(Kill(Cur, t.inst), t))

\* The cleanupTimeout timer (1000 ms) of a cleanupInstance call that has not
\* reached clearTimeout fires: the process is killed.
CleanupTimeout(n) ==
    /\ \E t \in BagToSet(cleanups) : t.inst = n
    /\ proc[n] = "up"
    /\ Commit(Kill(Cur, n))

(* -------------------------------- stopBrowser ------------------------- *)
\* The error stopBrowser throws before it changes anything, or "ok".
StopCheck(M, id) == IF MapGet(M, id) = NoInst THEN "InstanceNotFound" ELSE "ok"

\* stopBrowser from its status update to the first await of cleanupInstance.
StopStart(M, id) ==
    LET n == MapGet(M, id)
        st == [M.status[n] EXCEPT !.inProgress = TRUE, !.action = "stopping"]
    IN  CleanupStart(Emit([M EXCEPT !.status[n] = st], id, st, "kept"), id, StopOwner)

StopsSuspended(M) ==
    BagCardinality([t \in TasksOf(M, StopOwner) |-> M.cleanups[t]])

\* stopBrowser from the call to the first await; a rejected call only
\* throws.
StopBrowserCall(M, id) ==
    IF StopCheck(M, id) # "ok" THEN M ELSE StopStart(M, id)

StopBrowser(id) ==
    /\ StopCheck(Cur, id) = "ok" => StopsSuspended(StopStart(Cur, id)) <= MaxStops
    /\ Commit(StopBrowserCall(Cur, id))

(* ------------------------ stopAllBrowsers, the calls ------------------ *)
\* Array.from(this.instances.keys()).map(id => this.cleanupInstance(id)):
\* every call runs to its first await, in insertion order.
RECURSIVE CleanupAll(_, _, _)
CleanupAll(M, todo, k) ==
    IF todo = {} THEN M
    ELSE LET n == Min(todo)
         IN  CleanupAll(CleanupStart(M, M.instId[n], k), todo \ {n}, k)

\* stopAllBrowsers, as call k, up to its await.
ShutdownStart(M, k) ==
    CleanupAll([M EXCEPT !.isShuttingDown = TRUE, !.timerSet = FALSE],
               M.instances, k)

FreeShutdowns == Shutdowns \ shutdowns

\* stopAllBrowsers is called.  When no cleanupInstance call suspends,
\* Promise.all is already resolved and the call runs to its end.
StopAllBrowsers ==
    IF \E n \in instances : BrowserSet(Cur, n)
    THEN /\ FreeShutdowns # {}
         /\ Commit([ShutdownStart(Cur, Min(FreeShutdowns))
                      EXCEPT !.shutdowns = @ \cup {Min(FreeShutdowns)}])
    ELSE Commit(ShutdownFinally(ShutdownStart(Cur, StopOwner)))

\* The 'before-quit' listener the constructor installs: a request that finds
\* isShuttingDown set is suppressed, any other sets the flag, clears the
\* status timer and calls stopAllBrowsers.
BeforeQuit == IF isShuttingDown THEN Commit(Cur) ELSE StopAllBrowsers

\* The tasks of call k are awaited by nobody any more.
Abandon(B, k) ==
    LET moved == {t \in BagToSet(B) : t.owner = k}
        kept == [t \in BagToSet(B) \ moved |-> B[t]]
    IN  kept (+) SetToBag({Task(t.inst, Abandoned) : t \in moved})

\* timeoutPromise wins the race of call k (2000 ms): the rejection is caught
\* and logged, then the finally block.
ShutdownTimeout(k) ==
    /\ k \in shutdowns
    /\ Commit(ShutdownReturns([Cur EXCEPT !.cleanups = Abandon(@, k)], k))

(* ------------------------------ the quit sequence --------------------- *)
\* Some cleanupInstance call of a stopAllBrowsers call would suspend.
Suspends(M) == \E n \in M.instances : BrowserSet(M, n)

\* stopAllBrowsers called by a 'before-quit' listener as call k, up to the
\* listener's await: the call suspends at its Promise.race, or it is about to
\* return within the running step.
QuitCallStart(M, k) ==
    IF Suspends(M)
    THEN [ShutdownStart(M, k) EXCEPT !.shutdowns = @ \cup {k},
                                     !.quit.awaits = @ \cup {k}]
    ELSE ShutdownStart(M, StopOwner)

\* The 'before-quit' listener of the constructor up to its await: a request
\* that finds isShuttingDown set is only prevented; otherwise the flag is
\* set, the status timer cleared and saveConfigs called; when it throws the
\* catch block resets the flag, otherwise stopAllBrowsers is called.
ManagerBeforeQuit(M, write) ==
    IF M.isShuttingDown THEN M
    ELSE LET A == SaveConfigs([M EXCEPT !.isShuttingDown = TRUE,
                                        !.timerSet = FALSE], write)
         IN  IF write # "written" THEN [A EXCEPT !.isShuttingDown = FALSE]
             ELSE QuitCallStart(A, ManagerCall)

\* The stopAllBrowsers call of ManagerBeforeQuit returns within the step.
ManagerCallQueued(M, write) ==
    ~M.isShuttingDown /\ write = "written" /\ ~Suspends(M)

\* The 'before-quit' listener of main.ts up to its await: only the first
\* request passes isQuitting; it arms the 3000 ms timer and calls
\* stopAllBrowsers.
MainBeforeQuit(M) ==
    IF M.quit.isQuitting THEN M
    ELSE QuitCallStart([M EXCEPT !.quit.isQuitting = TRUE], MainCall)

MainCallQueued(M) == ~M.quit.isQuitting /\ ~Suspends(M)

\* The application is asked to quit (app.quit() from the menu, the window
\* or the operating system) while it runs: 'before-quit' is emitted and both
\* listeners run to their awaits, the constructor's first.  The calls that
\* did not suspend then return in the order they were made and their
\* listeners continue in that order: the constructor's calls app.quit()
\* again and runs as far as its saveConfigs call, or through it (outcome
\* again) when the listener of main.ts follows with app.exit(0).
QuitRequest(write, again) ==
    /\ write \in WriteOutcomes
    /\ again \in WriteOutcomes
    /\ ~isShuttingDown => ManagerCall \notin shutdowns
    /\ LET B == ManagerBeforeQuit(Cur, write)
           l1 == ManagerCallQueued(Cur, write)
           C == MainBeforeQuit(B)
           l2 == MainCallQueued(B)
           D == IF l1 \/ l2 THEN ShutdownFinally(C) ELSE C
       IN  Commit(
             IF l1 /\ l2
             THEN [SaveConfigs(D, again) EXCEPT !.timerSet = FALSE,
                                                !.quit.app = "exited"]
             ELSE IF l1
             THEN [D EXCEPT !.isShuttingDown = TRUE, !.timerSet = FALSE,
                            !.quit.app = "requitting"]
             ELSE IF l2
             THEN [D EXCEPT !.quit.app = "exited"]
             ELSE D)

\* The constructor's listener, entered again by its own app.quit(), runs
\* its saveConfigs call.  When it throws, the catch block resets the flag
\* and the listener ends.  Otherwise stopAllBrowsers finds the registry
\* cleared by the finally block that preceded, returns without a timer or
\* event in between, and the listener calls app.quit() again: the event
\* loop never gets control back.
QuitAgain(write) ==
    /\ quit.app = "requitting"
    /\ write \in WriteOutcomes
    /\ Assign(IF write # "written"
              THEN [SaveConfigs(Cur, write) EXCEPT !.isShuttingDown = FALSE,
                                                   !.quit.app = "running"]
              ELSE [ShutdownFinally(ShutdownStart(SaveConfigs(Cur, write), StopOwner))
                      EXCEPT !.isShuttingDown = TRUE])

\* The quitTimeout timer of main.ts (3000 ms) fires while its listener is
\* suspended: app.exit(0).
ForceQuit ==
    /\ MainCall \in quit.awaits
    /\ Commit([Cur EXCEPT !.quit.app = "exited"])

(* -------------------------------- the processes ----------------------- *)
\* A browser process ends without the manager killing it (closed by its
\* user, crashed, terminated from outside, or exiting after browser.close()).
ProcessExit(n) ==
    /\ proc[n] = "up"
    /\ Commit([Cur EXCEPT !.proc[n] = "exited"])

\* The 'disconnected' listener of launchBrowser (step 8).
OnDisconnected(M, id) == CleanUserDataDirectory(UpdateInstanceStatus(M, id, FALSE), id)

\* The connection to a dead process closes: isConnected() turns false and
\* the 'disconnected' listener, attached by a launch that succeeded, runs.
Disconnected(n) ==
    /\ proc[n] \in {"exited", "killed"}
    /\ LET M == [Cur EXCEPT !.proc[n] = "gone"] IN
       IF launchPc[n] = "done" THEN Commit(OnDisconnected(M, instId[n]))
       ELSE Commit(M)

(* ------------------------- checkAllInstancesStatus -------------------- *)
\* Mutant of PollApply: every result goes through updateInstanceStatus.
PollApplyAlwaysUpdates(M, n, isRunning) ==
    UpdateInstanceStatus(M, M.instId[n], isRunning)

\* The body of the for loop once checkBrowserRunning(instance.browser) gave
\* isRunning for the Instance object n the iterator handed out.
PollApply(M, n, isRunning) ==
    IF isRunning # M.status[n].isRunning
    THEN UpdateInstanceStatus(M, M.instId[n], isRunning)
    ELSE Emit(M, M.instId[n], M.status[n], "now")

\* The for loop from the entry after cur (a Map iterates in insertion order,
\* which is the order of allocation, and sees later insertions) up to the
\* next await (pollCur: the object being probed) or the end of the loop.
RECURSIVE PollRun(_, _)
PollRun(M, cur) ==
    LET later == {m \in M.instances : m > cur} IN
    IF later = {} THEN [M EXCEPT !.pollCur = NoInst]
    ELSE LET n == Min(later) IN
         IF ProbeNeeded(M, n) THEN [M EXCEPT !.pollCur = n]
         ELSE PollRun(PollApply(M, n, FALSE), n)

\* The interval timer fires (one cycle at a time is followed).
PollTick ==
    /\ timerSet
    /\ pollCur = NoInst
    /\ instances # {}
    /\ Commit(PollRun(Cur, NoInst))

\* The awaited probe of the poll cycle returns.
PollProbed(isRunning) ==
    /\ pollCur # NoInst
    /\ isRunning \in ProbeResults(Cur, pollCur)
    /\ Commit(PollRun(PollApply(Cur, pollCur, isRunning), pollCur))

\* Mutant of ProbeTimeout: browser.pages() is awaited without a timeout.
ProbeHangs(M, n) == M

\* withTimeout (utils.ts): the 2000 ms timer rejects the race before
\* browser.pages() has answered for object n; checkBrowserRunning catches
\* the rejection and returns false, and the loop goes on.
ProbeTimeout(M, n) == PollRun(PollApply(M, n, FALSE), n)

\* The timer of withTimeout fires for the probe the poll cycle awaits.
PollTimedOut ==
    /\ pollCur # NoInst
    /\ Commit(ProbeTimeout(Cur, pollCur))

(* ---------------------- saveConfig, deleteConfig ---------------------- *)
\* Mutant of SaveCheck: the names of the saved profiles are not compared.
SaveCheckNoFind(M, config) ==
    IF ~ValidateBrowserConfig(config) THEN "InvalidConfig" ELSE "ok"

\* The checks of saveConfig, in the order of the code.
SaveCheck(M, config) ==
    IF ~ValidateBrowserConfig(config) THEN "InvalidConfig"
    ELSE IF /\ FindByName(M, config.name) # 0
            /\ M.configs[FindByName(M, config.name)].id # config.id
         THEN "DuplicateName"
    ELSE "ok"

\* saveConfig(config); write: what writeFileSync does.  The profile is set in
\* memory before the file is written.
SaveConfigCall(M, config, write) ==
    IF SaveCheck(M, config) # "ok" THEN M
    ELSE SaveConfigs(ConfigsSet(M, config), write)

SaveConfig(config, write) ==
    /\ write \in WriteOutcomes
    /\ Commit(SaveConfigCall(Cur, config, write))

\* Mutant of DeleteCheck: a profile that is not saved is deleted as well.
DeleteCheckNoNotFound(M, id) ==
    IF id = "" THEN "InvalidId"
    ELSE IF MapHas(M, id) THEN "InstanceRunning"
    ELSE "ok"

\* Mutant of DeleteCheck: the registry is not consulted.
DeleteCheckNoHas(M, id) ==
    IF id = "" THEN "InvalidId"
    ELSE IF ~ConfigsHas(M, id) THEN "NotFound"
    ELSE "ok"

\* The checks of deleteConfig, in the order of the code.
DeleteCheck(M, id) ==
    IF id = "" THEN "InvalidId"
    ELSE IF MapHas(M, id) THEN "InstanceRunning"
    ELSE IF ~ConfigsHas(M, id) THEN "NotFound"
    ELSE "ok"

\* fs.rmSync(userDataDir, {recursive, force}): the directory goes with the
\* lock artifacts in it.
RemoveUserDataDirectory(M, id) ==
    IF id \in M.dirs
    THEN [M EXCEPT !.dirs = @ \ {id}, !.locks[id] = FALSE]
    ELSE M

\* deleteConfig(id); the profile is deleted in memory, then the file is
\* written, then (unless the write threw) the directory is removed.
DeleteConfigCall(M, id, write) ==
    IF DeleteCheck(M, id) # "ok" THEN M
    ELSE IF write = "written"
         THEN RemoveUserDataDirectory(SaveConfigs(ConfigsDelete(M, id), write), id)
         ELSE SaveConfigs(ConfigsDelete(M, id), write)

DeleteConfig(id, write) ==
    /\ write \in WriteOutcomes
    /\ Commit(DeleteConfigCall(Cur, id, write))

(* ------------------------------ specification ------------------------- *)
\* The manager after construction, the config store apart.
InitManager ==
    /\ instances = {}
    /\ instId = [n \in Inst |-> NoId]
    /\ status = [n \in Inst |-> NotRunningStatus]
    /\ launchPc = [n \in Inst |-> "none"]
    /\ proc = [n \in Inst |-> "none"]
    /\ locks = [id \in Ids |-> FALSE]
    /\ isShuttingDown = FALSE
    /\ timerSet = TRUE
    /\ shutdowns = {}
    /\ cleanups = EmptyBag
    /\ pollCur = NoInst
    /\ quit = NoQuit
    /\ emitted = <<>>

\* The profiles of Ids saved under distinct names.
Saved == <<BrowserConfig("1", <<"A">>), BrowserConfig("2", <<"B">>)>>

\* The manager after construction on a machine where the profiles of Ids
\* were saved and launched before: loadConfigs reads the file.
InitSaved ==
    /\ InitManager
    /\ stored = File(Saved)
    /\ configs = LoadConfigs([configs |-> <<>>, stored |-> File(Saved)]).configs
    /\ dirs = Ids

Init == InitSaved /\ lastEvent = History(FALSE)

\* The same, with the history of the events kept.
InitTracked == InitSaved /\ lastEvent = History(TRUE)

\* The manager after construction on a machine without a config file.
InitEmpty ==
    /\ InitManager
    /\ stored = NoFile
    /\ configs = LoadConfigs([configs |-> <<>>, stored |-> NoFile]).configs
    /\ dirs = {}
    /\ lastEvent = History(FALSE)

\* The calls of the public API, with ids the ids the callers pass.
Calls(ids) ==
    \/ \E id \in ids, chromeFound \in BOOLEAN : LaunchBrowser(id, chromeFound)
    \/ \E id \in ids : StopBrowser(id)
    \/ StopAllBrowsers
    \/ BeforeQuit

\* The continuations of suspended calls, the timers and the events.
Steps ==
    \/ \E n \in Inst, ok \in BOOLEAN : LaunchSpawned(n, ok)
    \/ \E n \in Inst, ok \in BOOLEAN : LaunchBootstrapped(n, ok)
    \/ \E n \in Inst, isRunning \in BOOLEAN : LaunchVerified(n, isRunning)
    \/ \E t \in Tasks : CleanupClosed(t)
    \/ \E t \in Tasks : CleanupCloseFailed(t)
    \/ \E n \in Inst : CleanupTimeout(n)
    \/ \E k \in Shutdowns : ShutdownTimeout(k)
    \/ \E n \in Inst : ProcessExit(n)
    \/ \E n \in Inst : Disconnected(n)
    \/ PollTick
    \/ \E isRunning \in BOOLEAN : PollProbed(isRunning)
    \/ PollTimedOut

Next == Calls(Ids) \/ Steps

Spec == Init /\ [][Next]_vars

\* The timers fire: the 2000 ms timer of every suspended stopAllBrowsers
\* call.
ShutdownFairSpec == Spec /\ \A k \in Shutdowns : WF_vars(ShutdownTimeout(k))

\* The timers fire (the 1000 ms timer of a suspended cleanupInstance call,
\* the 2000 ms timer of a suspended stopAllBrowsers call), a dead process
\* closes its connection, and browser.close() resolves once the connection
\* is closed.
Fairness ==
    /\ \A n \in Inst : WF_vars(CleanupTimeout(n))
    /\ \A n \in Inst : WF_vars(Disconnected(n))
    /\ \A t \in Tasks : WF_vars(CleanupClosed(t))
    /\ \A k \in Shutdowns : WF_vars(ShutdownTimeout(k))

FairSpec == Spec /\ Fairness

\* The timer of withTimeout fires.
PollFairSpec == Spec /\ WF_vars(PollTimedOut)

\* The application with its quit sequence, one profile: the launches and
\* stops of the user, the quit requests, and the continuations, timers and
\* events while the event loop runs.  stopAllBrowsers is called by the
\* 'before-quit' listeners only.
QuitTasks == [inst : Inst, owner : {MainCall}]
QuitNext ==
    \/ \E write, again \in WriteOutcomes : QuitRequest(write, again)
    \/ \E write \in WriteOutcomes : QuitAgain(write)
    \/ ForceQuit
    \/ \E chromeFound \in BOOLEAN : LaunchBrowser("1", chromeFound)
    \/ StopBrowser("1")
    \/ Steps
    \/ \E t \in QuitTasks : CleanupClosed(t)
    \/ \E t \in QuitTasks : CleanupCloseFailed(t)
    \/ ShutdownTimeout(MainCall)

QuitSpec == Init /\ [][QuitNext]_vars

\* The timers fire while the event loop runs: those of Fairness, the
\* 2000 ms timer of the stopAllBrowsers call of main.ts and its 3000 ms
\* quitTimeout.
QuitFairSpec ==
    /\ QuitSpec
    /\ \A n \in Inst : WF_vars(CleanupTimeout(n))
    /\ \A n \in Inst : WF_vars(Disconnected(n))
    /\ \A k \in QuitCalls : WF_vars(ShutdownTimeout(k))
    /\ WF_vars(ForceQuit)

\* One profile: every call passes the same id.
OneId == {"1"}
NextOneId == Calls(OneId) \/ Steps
FairSpecOneId == Init /\ [][NextOneId]_vars /\ Fairness

\* One profile, with the history of the events kept.
EventSpec == InitTracked /\ [][NextOneId]_vars

\* The configs and ids the renderer passes to saveConfig and deleteConfig:
\* valid ones, and ones validateBrowserConfig or deleteConfig rejects.
LongName == [i \in 1..(NameMax + 1) |-> "A"]
BadNames == {<<>>, <<" ">>, LongName}
IdInputs == Ids \cup BadIds

\* The calls of the config store API, with the configs of ids x names and
\* the outcomes of writes the callers and the file system provide.
ConfigCalls(ids, names, writes) ==
    \/ \E id \in ids, name \in names, write \in writes :
            SaveConfig(BrowserConfig(id, name), write)
    \/ \E id \in ids, write \in writes : DeleteConfig(id, write)

\* The config store alone, from an empty store: any saves and deletes, any
\* outcome of the writes.
StoreNames == {<<"A">>, <<"B">>, <<"A", " ">>} \cup BadNames
StoreNext == ConfigCalls(IdInputs, StoreNames, WriteOutcomes)
StoreSpec == InitEmpty /\ [][StoreNext]_vars

\* The config store with the lifecycle of one profile, from an empty store,
\* on a file system whose writes succeed.
ConfigIds == Ids \cup {"", "1a"}
ConfigNames == {<<"A">>, <<>>}
ConfigNext ==
    \/ ConfigCalls(ConfigIds, ConfigNames, {"written"})
    \/ Calls(OneId)
    \/ Steps

ConfigSpec == InitEmpty /\ [][ConfigNext]_vars

(* ------------------------------- the claims --------------------------- *)
Registered(id) == \E n \in instances : instId[n] = id
LaunchInFlight(n) == launchPc[n] \in {"spawning", "bootstrap", "verify"}
StopInFlight(n) == BagIn(Task(n, StopOwner), cleanups)
NotRunningEmitted(id) ==
    \E i \in DOMAIN emitted : emitted[i] = Event(id, NotRunningStatus, "now")
EmittedFor(id) == \E i \in DOMAIN emitted : emitted[i].id = id

\* C1: after any sequence of launch, stop, poll, disconnect and shutdownAll
\* steps the registry holds at most one Instance object per profile id.
C1_OneInstancePerId == \A a, b \in instances : instId[a] = instId[b] => a = b

\* An id is registered again while the Instance object of its earlier launch
\* is still in use.
C1_Witness ==
    \E a, b \in Inst : /\ a # b
                       /\ instId[a] = instId[b]
                       /\ instId[a] # NoId
                       /\ b \in instances

\* C2 (as claimed): two launches of one id are never in flight together.
C2_OneLaunchInFlight ==
    \A a, b \in Inst :
        (a # b /\ LaunchInFlight(a) /\ LaunchInFlight(b)) => instId[a] # instId[b]

\* C3 (as claimed): per id, at most one launch or stop is in flight.
OpsInFlight(id) ==
    Cardinality({n \in Inst : instId[n] = id /\ LaunchInFlight(n)})
    + BagCardinality([t \in {u \in BagToSet(cleanups) :
                               u.owner = StopOwner /\ instId[u.inst] = id}
                        |-> cleanups[t]])
C3_OneOperationPerId == \A id \in Ids : OpsInFlight(id) <= 1

\* C4 (as claimed): a poll step or a disconnect step leaves every registered
\* id whose status has inProgress = true as it is: registered, its status
\* unchanged (lastChecked included) and no event emitted for it.
PollStep == PollTick \/ \E isRunning \in BOOLEAN : PollProbed(isRunning)
DisconnectStep == \E n \in Inst : Disconnected(n)
C4_InProgressSkipped ==
    [][(PollStep \/ DisconnectStep) =>
         \A n \in instances :
             status[n].inProgress =>
                 /\ n \in instances'
                 /\ status'[n] = status[n]
                 /\ \A id \in Ids : id = instId[n] => ~EmittedFor(id)']_vars

\* C5 (as claimed): a launch call for a registered id fails with
\* AlreadyRunning.
C5_AlwaysAlreadyRunning ==
    \A id \in Ids : Registered(id) => LaunchCheck(Cur, id) = "AlreadyRunning"

\* C5 (amended): a launch call for a registered id fails, with ShuttingDown
\* while isShuttingDown is set and with AlreadyRunning otherwise, and the
\* call changes neither the registry nor any status.
C5_RegisteredLaunchRejected ==
    /\ [](\A id \in Ids :
            Registered(id) =>
                LaunchCheck(Cur, id) =
                    IF isShuttingDown THEN "ShuttingDown" ELSE "AlreadyRunning")
    /\ [][\A id \in Ids :
            (Registered(id) /\ \E chromeFound \in BOOLEAN : LaunchBrowser(id, chromeFound))
                => UNCHANGED <<instances, instId, status, launchPc>>]_vars

\* A shutdown is suspended while an id is still registered: a launch of that
\* id is rejected with ShuttingDown.
C5_Witness ==
    \E id \in Ids : /\ Registered(id)
                    /\ isShuttingDown
                    /\ shutdowns # {}
                    /\ LaunchCheck(Cur, id) = "ShuttingDown"

\* C6: every stop call accepted for a registered id ends: a stopBrowser call
\* suspended in cleanupInstance returns (also after browser.close() failed
\* or hung and the process was killed), and the step in which a stopBrowser
\* call returns, suspended before or not, leaves the id unregistered and its
\* lock artifacts removed.
StopTasks(n) == CopiesIn(Task(n, StopOwner), cleanups)
StopEndsClean(id) == ~Registered(id)' /\ ~locks'[id]
LaunchFailureCleaned(id) ==
    /\ ~Registered(id)'
    /\ ~locks'[id]
    /\ NotRunningEmitted(id)'
    /\ LaunchCheck(Cur, id)' # "AlreadyRunning"
C8_FailedLaunchTornDown == \A n \in Inst : launchPc[n] = "failed" => proc[n] # "up"

\* C9 (as claimed): when the process of the registered running instance of
\* an id has exited while no launch or stop holds the id, the id leaves the
\* registry and a not-running event is emitted for it.
DiedOutside(id) ==
    \E n \in instances :
        /\ instId[n] = id
        /\ launchPc[n] = "done"
        /\ status[n] = RunningStatus
        /\ proc[n] = "exited"
        /\ \A t \in BagToSet(cleanups) : t.inst # n
C9_DeathReconciled ==
    \A id \in Ids : /\ DiedOutside(id) ~> ~Registered(id)
                    /\ DiedOutside(id) ~> NotRunningEmitted(id)

\* C10: every stopAllBrowsers call returns, whatever becomes of its
\* cleanupInstance calls, and the registry is empty when it returns,
\* suspended before or not.  The rejection of timeoutPromise is caught in the
\* call: both ways out of the race continue in the finally block and the call
\* has no failing continuation.
C10_ShutdownReturns ==
    /\ \A k \in Shutdowns : (k \in shutdowns) ~> (k \notin shutdowns)
    /\ [][/\ \A k \in Shutdowns :
               (k \in shutdowns /\ k \notin shutdowns') => instances' = {}
          /\ (StopAllBrowsers /\ shutdowns' = shutdowns) => instances' = {}]_vars

\* A stopAllBrowsers call over two registered instances has returned on its
\* timeout while both cleanups were still suspended.
C10_Witness ==
    /\ shutdowns = {}
    /\ instances = {}
    /\ \A n \in Inst : BagIn(Task(n, Abandoned), cleanups) /\ proc[n] = "up"

\* C11 (as claimed): every step that removes an id from the registry leaves
\* the lock artifacts of that id removed.
C11_RemovalCleansLocks ==
    [][\A id \in Ids : (Registered(id) /\ ~Registered(id)') => ~locks'[id]]_vars

\* C12 (as claimed): when a launch returns success, the registry holds an
\* Instance for its id with status isRunning = true, inProgress = false and
\* no action.
C12_SuccessIsRegistered ==
    [][\A id \in Ids : \A n \in Inst :
          (instId[n] = id /\ launchPc[n] = "verify" /\ launchPc'[n] = "done")
              => \E m \in instances' : instId'[m] = id /\ status'[m] = RunningStatus]_vars

\* C13 (as claimed): while a stopAllBrowsers call has started and not
\* returned, every launch fails with ShuttingDown.
C13_QuiescentWhileShuttingDown ==
    shutdowns # {} => \A id \in Ids : LaunchCheck(Cur, id) = "ShuttingDown"

\* C14 (as claimed): no execution of stopAllBrowsers starts while another
\* one has not returned.
ShutdownStarts == StopAllBrowsers \/ (~isShuttingDown /\ BeforeQuit)
C14_OneShutdownAtATime == [][ShutdownStarts => shutdowns = {}]_vars

\* C18 (as claimed): every step that removes an id from the registry emits
\* a not-running event for that id.
C18_RemovalIsAnnounced ==
    [][\A id \in Ids :
          (Registered(id) /\ ~Registered(id)') => NotRunningEmitted(id)']_vars

C16_RegisteredHasProfile == \A n \in instances : ConfigsHas(Cur, instId[n])

\* The profile of a launch in flight has been deleted: the stop that made
\* the delete possible had removed the Instance from the registry.
C16_Witness ==
    \E n \in Inst : /\ LaunchInFlight(n)
                    /\ instId[n] = "1"
                    /\ ~ConfigsHas(Cur, "1")
                    /\ ~Registered("1")

\* The requests the contract rejects: a launch while shutting down, of a
\* registered id or of an id without saved profile; a stop of an id that is
\* not registered; a save of an invalid config or of a name another profile
\* has; a delete of a registered id or of an id without saved profile.
LaunchRejected(id) == isShuttingDown \/ Registered(id) \/ ~ConfigsHas(Cur, id)
StopRejected(id) == ~Registered(id)
SaveRejected(config) ==
    \/ ~ValidateBrowserConfig(config)
    \/ \E i \in 1..Len(configs) : /\ configs[i].name = config.name
                                   /\ configs[i].id # config.id
DeleteRejected(id) == Registered(id) \/ ~ConfigsHas(Cur, id)

\* C17: a launchBrowser, stopBrowser, saveConfig or deleteConfig call the
\* contract rejects changes nothing: it leaves the registry (its objects,
\* their ids and statuses), the saved profiles and the file as they were and
\* emits no status event.
C17_RejectedHasNoSideEffects ==
    /\ \A id \in Ids, n \in Inst, chromeFound \in BOOLEAN :
          LaunchRejected(id) => LaunchBrowserCall(Cur, id, n, chromeFound) = Cur
    /\ \A id \in Ids : StopRejected(id) => StopBrowserCall(Cur, id) = Cur
    /\ \A id \in ConfigIds, name \in ConfigNames, write \in WriteOutcomes :
          SaveRejected(BrowserConfig(id, name))
              => SaveConfigCall(Cur, BrowserConfig(id, name), write) = Cur
    /\ \A id \in ConfigIds, write \in WriteOutcomes :
          DeleteRejected(id) => DeleteConfigCall(Cur, id, write) = Cur

\* A shutdown is suspended over the registered profile "1": a launch, a stop
\* of "2", a save of the name of "1" for "2" and a delete of "1" would all be
\* rejected, and the last step has emitted nothing.
C17_Witness ==
    /\ isShuttingDown
    /\ Registered("1")
    /\ ~Registered("2")
    /\ SaveRejected(BrowserConfig("2", <<"A">>))
    /\ LaunchCheck(Cur, "1") = "ShuttingDown"
    /\ StopCheck(Cur, "2") = "InstanceNotFound"
    /\ SaveCheck(Cur, BrowserConfig("2", <<"A">>)) = "DuplicateName"
    /\ DeleteCheck(Cur, "1") = "InstanceRunning"
    /\ emitted = <<>>

\* No two profiles of a list share a name.
UniqueNames(list) ==
    \A i, j \in 1..Len(list) : list[i].name = list[j].name => i = j

\* Another saved profile has the name of the config.
NameTaken(config) ==
    \E i \in 1..Len(configs) : /\ configs[i].name = config.name
                               /\ configs[i].id # config.id

\* C19: after any saves and deletes from an empty store no two saved
\* profiles (in memory or in the file) share a name, and a save of a valid
\* config whose name another saved profile has, for a new id or as a rename,
\* is rejected with DuplicateName and changes nothing.
C19_NamesAreUnique ==
    /\ UniqueNames(configs)
    /\ stored.state = "json" => UniqueNames(stored.list)
    /\ \A id \in IdInputs, name \in StoreNames, write \in WriteOutcomes :
          (ValidateBrowserConfig(BrowserConfig(id, name))
              /\ NameTaken(BrowserConfig(id, name)))
            => /\ SaveCheck(Cur, BrowserConfig(id, name)) = "DuplicateName"
               /\ SaveConfigCall(Cur, BrowserConfig(id, name), write) = Cur

\* Two profiles are saved under different names: renaming either to the
\* name of the other is rejected.
C19_Witness ==
    /\ Len(configs) = 2
    /\ stored = File(configs)
    /\ SaveCheck(Cur, BrowserConfig(configs[1].id, configs[2].name)) = "DuplicateName"
    /\ SaveCheck(Cur, BrowserConfig(configs[2].id, configs[1].name)) = "DuplicateName"

\* The profiles a manager constructed now would hold: loadConfigs on an
\* empty this.configs.
Reloaded == LoadConfigs([Cur EXCEPT !.configs = <<>>]).configs

\* The profiles of a list, as a set.
Profiles(list) == {list[i] : i \in 1..Len(list)}

\* C20 (as claimed): after every saveConfig or deleteConfig call, whatever
\* it returned and whatever the write did, the file holds the profiles held
\* in memory: reloading yields the same profiles.
C20_StorageEqualsMemory == Profiles(Reloaded) = Profiles(configs)

\* The lifecycle state of an id, read from the registry: absent when the id
\* is not registered, else what the status of its Instance says.
Lifecycle(id) ==
    IF ~Registered(id) THEN "absent"
    ELSE LET st == status[CHOOSE n \in instances : instId[n] = id] IN
         IF st.inProgress /\ st.action = "starting" THEN "starting"
         ELSE IF st.inProgress /\ st.action = "stopping" THEN "stopping"
         ELSE IF st.isRunning THEN "running"
         ELSE "stopped"

\* The transitions of the state machine per id.
LifecycleTransitions ==
    {<<"absent", "starting">>, <<"starting", "running">>,
     <<"running", "stopping">>, <<"stopping", "absent">>,
     <<"starting", "absent">>, <<"running", "absent">>}

\* C21 (as claimed): every step leaves the lifecycle state of every id as it
\* was or takes one of the transitions of the state machine; in particular
\* no step takes an id from starting to stopping.
C21_LifecycleTransitions ==
    [][\A id \in Ids :
          \/ Lifecycle(id)' = Lifecycle(id)
          \/ <<Lifecycle(id), Lifecycle(id)'>> \in LifecycleTransitions]_vars

\* The step is a completion that belongs to the Instance object n: its
\* launch fails, the connection of its process closes, a cleanupInstance
\* call that holds it reaches its finally block, or the poll cycle gets the
\* probe result of n and has no later entry to visit.
CompletionOf(n) ==
    \/ launchPc[n] # "failed" /\ launchPc'[n] = "failed"
    \/ proc[n] # "gone" /\ proc'[n] = "gone"
    \/ \E t \in BagToSet(cleanups) :
          t.inst = n /\ CopiesIn(t, cleanups') < CopiesIn(t, cleanups)
    \/ pollCur = n /\ pollCur' = NoInst /\ \A k \in instances : k <= n

\* C22 (as claimed): a completion that belongs to an Instance object of an
\* id that is no longer registered leaves a different Instance object,
\* registered later under the same id, registered and its status unchanged.
C22_StaleCompletionsAreInert ==
    [][\A n, m \in Inst :
          (/\ n # m
           /\ instId[n] = instId[m]
           /\ n \notin instances
           /\ m \in instances
           /\ CompletionOf(n))
            => m \in instances' /\ status'[m] = status[m]]_vars

\* The browser process of Instance object n was spawned, has not exited and
\* has not been killed.
Live(n) == proc[n] = "up"

\* C23 (as claimed): no two live browser processes the manager started use
\* the profile directory of one id.
C23_OneLiveProcessPerId ==
    \A a, b \in Inst : (Live(a) /\ Live(b) /\ instId[a] = instId[b]) => a = b

\* C29 (as claimed): no step removes the lock artifacts of the profile
\* directory of an id while an Instance object registered for the id and
\* reported running has a live process, which the step leaves alive.
C29_LocksOfLiveProcessKept ==
    [][\A id \in Ids :
          (locks[id] /\ ~locks'[id])
            => ~\E n \in instances : /\ instId[n] = id
                                     /\ status[n] = RunningStatus
                                     /\ Live(n)
                                     /\ proc'[n] = "up"]_vars

\* The Instance objects a poll cycle can hold a probe result for: the
\* registered ones and the one being probed.
Polled == instances \cup ({pollCur} \ {NoInst})

\* C26: when the probe result of a polled Instance object equals the
\* isRunning of its status, the loop body emits one event, carrying the id,
\* the unchanged isRunning, inProgress and action and a fresh lastChecked,
\* and changes nothing else: not the registry, not any status.
C26_UnchangedPollOnlyRefreshes ==
    \A n \in Polled :
        PollApply(Cur, n, status[n].isRunning)
            = [Cur EXCEPT !.ev = <<Event(instId[n], status[n], "now")>>]

\* A poll cycle has just found the liveness of a stopping Instance
\* unchanged.
C26_Witness ==
    \E n \in instances : /\ status[n].action = "stopping"
                         /\ pollCur = NoInst
                         /\ emitted = <<Event(instId[n], status[n], "now")>>

\* C30 (as claimed): whenever isShuttingDown is clear, so that launches are
\* accepted, the status check timer is scheduled.
C30_PollingWhileLaunchesAccepted == ~isShuttingDown => timerSet

\* The poll cycle awaits the probe of n: the registered objects of other ids
\* after n in the iteration whose probe has to be awaited as well.
Waiting(n) ==
    {m \in instances : m > n /\ instId[m] # instId[n] /\ ProbeNeeded(Cur, m)}

\* C24: when the probe the poll cycle awaits fails, the cycle goes on in the
\* same step: it does not end before an Instance of another id whose probe
\* has to be awaited, the failure changes neither the registration nor the
\* status of an Instance of another id that was visited before or is still
\* to be probed, and every Instance of another id the loop has passed that
\* is not in progress has its event.
C24_ProbeFailureIsIsolated ==
    \A n \in {pollCur} \ {NoInst} :
        \E R \in {PollRun(PollApply(Cur, n, FALSE), n)} :
            /\ \A w \in Waiting(n) : R.pollCur # NoInst /\ R.pollCur <= w
            /\ \A m \in instances :
                  (instId[m] # instId[n] /\ (m < n \/ m \in Waiting(n)))
                    => m \in R.instances /\ R.status[m] = status[m]
            /\ \A m \in instances :
                  (/\ m > n
                   /\ instId[m] # instId[n]
                   /\ ~ProbeNeeded(Cur, m)
                   /\ ~status[m].inProgress
                   /\ R.pollCur = NoInst \/ m < R.pollCur)
                    => \E i \in DOMAIN R.ev : R.ev[i].id = instId[m]

\* A probe has failed for one id, which left the registry with its
\* not-running event, and the same cycle now awaits the probe of another id.
C24_Witness ==
    \E id \in Ids :
        /\ ~Registered(id)
        /\ emitted = <<Event(id, NotRunningStatus, "now")>>
        /\ pollCur \in instances
        /\ instId[pollCur] # id

\* C25: a liveness check the poll cycle awaits always ends, also when
\* browser.pages() never answers: the 2000 ms timeout of withTimeout turns
\* the probe into a failure, the cycle goes on to the remaining Instances and
\* comes to its end.
C25_ProbeTerminates ==
    (pollCur # NoInst) ~> (pollCur = NoInst)

\* The poll cycle awaits the probe of a live browser while the Instance of
\* another id is still to be probed in the same cycle.
C25_Witness ==
    /\ pollCur \in instances
    /\ proc[pollCur] = "up"
    /\ Waiting(pollCur) # {}

\* A quit was requested and the application has not exited: it runs, or the
\* constructor's listener is calling app.quit() again.
QuitPending == quit.isQuitting /\ quit.app # "exited"

\* C27 (as claimed): from the quit request until the process exits, a
\* launchBrowser call the running application receives is rejected with
\* ShuttingDown, whatever id it passes.
C27_LaunchesRejectedUntilExit ==
    (QuitPending /\ quit.app = "running")
        => \A id \in Ids : LaunchCheck(Cur, id) = "ShuttingDown"

\* C28 (as claimed): after a quit request the application eventually exits.
C28_QuitAlwaysExits == quit.isQuitting ~> (quit.app = "exited")

\* C33: the status of every registered Instance carries an action (starting
\* or stopping) exactly when its inProgress is true.
C33_ActionIffInProgress ==
    \A n \in instances :
        status[n].action \in {"starting", "stopping"} <=> status[n].inProgress

\* A stopBrowser call marked a starting Instance as stopping and is still
\* suspended; the launch has since succeeded and replaced the status, while
\* another Instance is in progress.
C33_Witness ==
    \E n, m \in instances :
        /\ StopInFlight(n)
        /\ status[n] = RunningStatus
        /\ status[m].inProgress

\* puppeteer.launch spawns the browser process of Instance object n in this
\* step.
Spawns(n) == launchPc[n] = "spawning" /\ launchPc'[n] = "bootstrap"

\* C32 (as claimed): at the moment a launch spawns its browser process, no
\* lock artifact is present in the profile directory of its id.
C32_NoLockAtSpawn ==
    [][\A n \in Inst : Spawns(n) => ~locks[instId[n]]]_vars

\* A launchBrowser call, a stopBrowser call or any cleanupInstance call is
\* at work on an Instance object of the id.
InFlight(id) ==
    \E n \in Inst :
        /\ instId[n] = id
        /\ LaunchInFlight(n) \/ \E t \in BagToSet(cleanups) : t.inst = n

\* C31 (as claimed): whenever no launch and no stop is in flight for an id,
\* the last status event emitted for the id reports isRunning or inProgress
\* only if the registry holds an Instance of the id with that status.
C31_LastEventAgrees ==
    \A id \in Ids :
        (~InFlight(id) /\ (lastEvent.of[id].isRunning \/ lastEvent.of[id].inProgress))
            => \E n \in instances : instId[n] = id /\ status[n] = lastEvent.of[id]

====
